---- MODULE Spec2Model ----
(***************************************************************************)
(* Model of the alertalerter scraper: the poll scheduler                   *)
(* (Scraper.start / refreshWorkers / triggerScrapeCycle), the ingestion    *)
(* pipeline (Scraper.processMessages) with its rule filter, and the stores *)
(* they read and write (Channel, Message, FilterPhrase, User tables).      *)
(*                                                                         *)
(* Text is a sequence of characters.  A character is a one-token string:   *)
(* letters "a" "A" "b" "B", "sp" (space), "nl" (newline), "apos" (the      *)
(* ASCII apostrophe), "rsq" (a typographic apostrophe, U+2019 or U+02BC)   *)
(* and "bp" (one occurrence of a boilerplate string that cleanMessage      *)
(* strips).                                                                *)
(*                                                                         *)
(* Time is counted in units of 500 ms.                                     *)
(***************************************************************************)
EXTENDS Integers, Sequences, FiniteSets, TLC

VARIABLES
    \* ---- stores (the database) ----
    rules,        \* FilterPhrase table: set of [phrase, exclude], phrase unique
    silent,       \* User.silentMode: the set of users in do-not-disturb mode
    messages,     \* Message table: sequence of rows in insertion order
    channels,     \* Channel table: feed id -> [scrapTimeout, lastScrapedAt] or NoChannel
    \* ---- ingestion (Scraper.processMessages invocations) ----
    calls,        \* call id -> the locals and position of that invocation
    started,      \* number of processMessages invocations begun so far
    bus,          \* sequence of payloads handed to emitAlerts, in order
    faults,       \* whether database operations may fail in this run
    \* ---- scheduler (Scraper.start loop) ----
    clock,        \* wall clock
    workers,      \* Scraper.workers: the set of feed ids with a table entry
    spc,          \* position of the scheduling loop
    cyc,          \* locals of the current refreshWorkers / triggerScrapeCycle
    lastCycle,    \* record of the last scrape cycle that reached its dispatch loop
    isRunning,    \* Scraper.isRunning
    inflight,     \* feed id -> fetch jobs posted to the feed's worker and not yet answered
    handlerLog,   \* logger.error lines of the worker-result handler and of processMessages
    dying,        \* feed id -> workers that emitted 'error' and whose 'exit' is still to come
    orphans,      \* feed id -> live workers of the feed that have no table entry
    \* ---- alert bus and delivery ----
    handlers,     \* number of handlers registered on the bus with onAlerts
    sends,        \* the send attempts sendAlerts has started, each with its outcome
    \* ---- filter harness ----
    fIn,          \* [text, rules]: the input of a classification
    fOut,         \* "none" before it ran, then "passed" or "filtered"
    \* ---- parser harness ----
    pIn,          \* one .tgme_widget_message_wrap block of a fetched page
    pOut,         \* what scrapeChannel made of it: skipped, or the raw item
    \* ---- the bot's administration handlers ----
    compaction,   \* the admin_compact handler: its position and its local rules
    adminState,   \* adminState[admin]: "none", "await_hit" or "await_miss"
    banned,       \* User.isBanned: the set of banned users
    starts        \* number of calls of Scraper.start() so far

vars == <<rules, silent, messages, channels, calls, started, bus, faults,
          clock, workers, spc, cyc, lastCycle, isRunning, inflight, handlerLog,
          dying, orphans, handlers, sends, fIn, fOut, pIn, pOut,
          compaction, adminState, banned, starts>>

storeVars == <<rules, silent, messages, channels>>
ingestVars == <<calls, started, bus>>
schedVars == <<clock, workers, spc, cyc, lastCycle, isRunning, inflight>>
deliverVars == <<handlers, sends>>
filterVars == <<fIn, fOut>>
parseVars == <<pIn, pOut>>
workerVars == <<dying, orphans>>
adminVars == <<compaction, adminState, banned>>

-----------------------------------------------------------------------------
(* Bounds *)

MaxTextLen == 3      \* longest text drawn for the filter harness
MaxBatch == 2        \* longest batch a fetch result carries
MaxCalls == 2        \* processMessages invocations per run
MaxTime == 6         \* the clock runs from StartTime to StartTime + MaxTime
MaxStray == 1        \* workers per feed between 'error' and 'exit', and orphaned workers per feed

-----------------------------------------------------------------------------
(* Text *)

Letters == {"a", "A", "b", "B"}
Whitespace == {"sp", "nl"}

\* String.prototype.toLowerCase on one character
ToLowerChar(c) == IF c = "A" THEN "a" ELSE IF c = "B" THEN "b" ELSE c

\* .replace(/[’ʼ]/g, "'") on one character
ApostropheChar(c) == IF c = "rsq" THEN "apos" ELSE c

MapSeq(s, Op(_)) == [i \in 1..Len(s) |-> Op(s[i])]

RECURSIVE TrimStart(_)
TrimStart(s) ==
    IF s = <<>> THEN <<>>
    ELSE IF Head(s) \in Whitespace THEN TrimStart(Tail(s)) ELSE s

RECURSIVE TrimEnd(_)
TrimEnd(s) ==
    IF s = <<>> THEN <<>>
    ELSE IF s[Len(s)] \in Whitespace THEN TrimEnd(SubSeq(s, 1, Len(s) - 1)) ELSE s

\* String.prototype.trim
Trim(s) == TrimEnd(TrimStart(s))

\* .replace(/[^\S\r\n]+/g, ' '): every run of spaces collapses to one space,
\* newlines are kept
RECURSIVE CollapseSpaces(_)
CollapseSpaces(s) ==
    IF Len(s) < 2 THEN s
    ELSE IF s[1] = "sp" /\ s[2] = "sp" THEN CollapseSpaces(Tail(s))
    ELSE <<s[1]>> \o CollapseSpaces(Tail(s))

\* the three boilerplate .replace(..., ' ') calls on one character
BoilerplateChar(c) == IF c = "bp" THEN "sp" ELSE c

cleanMessage(text) ==
    Trim(CollapseSpaces(MapSeq(MapSeq(text, BoilerplateChar), ApostropheChar)))

normalize(s) == Trim(MapSeq(MapSeq(s, ToLowerChar), ApostropheChar))

\* String.prototype.includes: scan the start positions left to right
RECURSIVE IncludesFrom(_, _, _)
IncludesFrom(t, p, i) ==
    IF i + Len(p) - 1 > Len(t) THEN FALSE
    ELSE IF SubSeq(t, i, i + Len(p) - 1) = p THEN TRUE
    ELSE IncludesFrom(t, p, i + 1)

Includes(t, p) == IncludesFrom(t, p, 1)

-----------------------------------------------------------------------------
(* The rule filter *)

excludeRules(rs) == {normalize(r.phrase) : r \in {x \in rs : x.exclude}}
includeRules(rs) == {normalize(r.phrase) : r \in {x \in rs : ~x.exclude}}

\* a plausible slip: an include match decides alone, an exclude match is not consulted
passedFilterIncludeOnly(ex, inc, normalizedText) ==
    \E p \in inc : Includes(normalizedText, p)

passedFilter(ex, inc, normalizedText) ==
    ~(\E p \in ex : Includes(normalizedText, p))
    /\ (\E p \in inc : Includes(normalizedText, p))

\* the classification of one raw text under a rule set, as the prepare loop does it
Classify(text, rs) ==
    passedFilter(excludeRules(rs), includeRules(rs), normalize(cleanMessage(text)))

-----------------------------------------------------------------------------
(* Domains the inputs are drawn from *)

Feeds == {1, 2}
Users == {"u1", "u2"}
\* a feed id with no row in the Channel table
NoChannel == [present |-> FALSE, scrapTimeout |-> 0, lastScrapedAt |-> 0]

\* _UserSubscriptions: u1 follows every feed, u2 follows feed 2 only
subscribedTo(u) == IF u = "u1" THEN Feeds ELSE {2}

\* the feed whose fetch results are ingested
IngestFeeds == {1}

\* the phrase an administrator adds with /hit, and the one added with /miss
HitPhrases == {<<"A">>}
MissPhrases == {<<"b", "sp">>}

NoMedia == [mediaUrl |-> "none", mediaType |-> "none"]
Photo == [mediaUrl |-> "m", mediaType |-> "photo"]

RawItem(id, text, media) ==
    [telegramId |-> id, text |-> text, mediaUrl |-> media.mediaUrl, mediaType |-> media.mediaType]

\* raw items a page can carry: two versions of post 1 (edited text, added photo)
\* and post 2
ItemPool ==
    { RawItem(1, <<"a">>, NoMedia),
      RawItem(1, <<"a", "sp", "B">>, Photo),
      RawItem(2, <<"bp", "b">>, NoMedia) }

\* the NaN that parseInt returns for an id that is not a number, as a code
\* outside the ids
NaN == 0 - 1

\* parseInt(dataId.split('/').pop() || '0', 10) on the last segment of data-post
messageId(segment) ==
    CASE segment = "1" -> 1
      [] segment = "2" -> 2
      [] segment = "" -> 0
      [] OTHER -> NaN

Video == [mediaUrl |-> "m", mediaType |-> "video"]

\* the blocks a page can hold: the last segment of data-post ("none": no
\* attribute), the trimmed text, a <time datetime>, whether the block has a
\* .tgme_widget_message_photo and a .tgme_widget_message_video region, the
\* .tgme_widget_message_photo_wrap ("image": its style holds a background
\* image), the <video> inside the video region ("src": with a src attribute),
\* a src attribute and a background image on the video region itself
Blocks ==
    [post : {"none", "", "1", "2", "x"}, text : {<<>>, <<"a">>}, time : BOOLEAN,
     photo : BOOLEAN, video : BOOLEAN, wrap : {"none", "plain", "image"},
     tag : {"none", "nosrc", "src"}, regionSrc : BOOLEAN, preview : BOOLEAN]

NoBlock == [post |-> "none", text |-> <<>>, time |-> FALSE, photo |-> FALSE, video |-> FALSE,
            wrap |-> "none", tag |-> "none", regionSrc |-> FALSE, preview |-> FALSE]

NoItem == RawItem(0, <<>>, NoMedia)

\* the photo wrap's background image first; else, in a video region, the src
\* of a <video> inside it (kind video whatever attr('src') gave), else the
\* region's own src (the kind is left unset), else its background image
mediaOf(b) ==
    IF b.wrap = "image" THEN Photo
    ELSE IF ~b.video THEN NoMedia
    ELSE IF b.tag # "none"
            THEN [mediaUrl |-> IF b.tag = "src" THEN "m" ELSE "none", mediaType |-> "video"]
    ELSE IF b.regionSrc THEN [mediaUrl |-> "m", mediaType |-> "none"]
    ELSE IF b.preview THEN Video
    ELSE NoMedia

\* scrapeChannel: the callback of $('.tgme_widget_message_wrap').each
parseBlock(b) ==
    IF b.post = "none" THEN [state |-> "skipped", item |-> NoItem]
    ELSE IF b.text = <<>> /\ ~b.photo /\ ~b.video THEN [state |-> "skipped", item |-> NoItem]
    ELSE IF ~b.time THEN [state |-> "skipped", item |-> NoItem]
    ELSE [state |-> "item", item |-> RawItem(messageId(b.post), b.text, mediaOf(b))]

\* posts of a page, one of them with a data-post attribute that has no number
PagePosts ==
    { [post |-> "1", text |-> <<"a">>],
      [post |-> "2", text |-> <<"bp", "b">>],
      [post |-> "x", text |-> <<"a">>] }

\* scrapeChannel: the raw item pushed for each post
ScrapedPool == {RawItem(messageId(p.post), p.text, NoMedia) : p \in PagePosts}

RECURSIVE SeqsUpTo(_, _)
SeqsUpTo(S, n) ==
    IF n = 0 THEN {<<>>}
    ELSE LET shorter == SeqsUpTo(S, n - 1)
         IN  shorter \cup {Append(q, x) : q \in {r \in shorter : Len(r) = n - 1}, x \in S}

Batches == SeqsUpTo(ItemPool, MaxBatch)

ScrapedBatches == SeqsUpTo(ScrapedPool, MaxBatch)

Range(q) == {q[i] : i \in 1..Len(q)}

\* the outcomes of one database operation: it succeeds, or (when faults are on) fails
DbOutcomes == IF faults THEN {TRUE, FALSE} ELSE {TRUE}

-----------------------------------------------------------------------------
(* Ingestion: Scraper.processMessages *)

\* esc: a backslash before each MarkdownV2 special character.  None of the
\* characters of this model's texts is in the class [_*[\]()~`>#+-=|{}.!].
MarkdownSpecial == {"_", "*", "[", "]", "(", ")", "~", ">", "#", "|", "{", "}", ".", "!"}

RECURSIVE esc(_)
esc(text) ==
    IF text = <<>> THEN <<>>
    ELSE (IF Head(text) \in MarkdownSpecial THEN <<"bs", Head(text)>> ELSE <<Head(text)>>)
         \o esc(Tail(text))

\* quotedText: ">" before every line
RECURSIVE quoteLines(_)
quoteLines(text) ==
    IF text = <<>> THEN <<>>
    ELSE <<Head(text)>> \o (IF Head(text) = "nl" THEN <<">">> ELSE <<>>) \o quoteLines(Tail(text))

outMessage(channelName, cleanedText) ==
    <<"bell", channelName, "nl", ">">> \o quoteLines(esc(cleanedText))

\* prisma.user.findMany({ subscribedTo: some id = channelId, silentMode: false })
EligibleSubscribers(f) == {u \in Users : f \in subscribedTo(u) /\ u \notin silent}

\* an existence query without the channelId condition
existingIdsAnyFeed(store, f, batch) ==
    LET msgIds == {batch[i].telegramId : i \in 1..Len(batch)}
    IN  {store[j].telegramId : j \in {k \in 1..Len(store) : store[k].telegramId \in msgIds}}

\* prisma.message.findMany({ channelId, telegramId in msgIds }) -> existingIdsSet
existingIdsSet(store, f, batch) ==
    LET msgIds == {batch[i].telegramId : i \in 1..Len(batch)}
    IN  {store[j].telegramId :
            j \in {k \in 1..Len(store) :
                      store[k].channelId = f /\ store[k].telegramId \in msgIds}}

\* messages.map(m => BigInt(m.telegramId)): BigInt(NaN) throws a RangeError
BigIntThrows(batch) == \E i \in 1..Len(batch) : batch[i].telegramId = NaN

\* a prepare loop without the `continue` on an existing id
NothingSkipped(batch, existing) == batch

\* the items of the batch that the prepare loop does not skip
NotSkipped(batch, existing) ==
    SelectSeq(batch, LAMBDA m : m.telegramId \notin existing)

MessageRow(f, m, rs) ==
    [telegramId |-> m.telegramId,
     message    |-> cleanMessage(m.text),
     mediaUrl   |-> m.mediaUrl,
     mediaType  |-> m.mediaType,
     channelId  |-> f,
     sent       |-> Classify(m.text, rs)]

\* a prepare loop that classifies with the rule table as it is at that moment
allMessagesToPersistLive(f, batch, existing, rs) ==
    LET new == NotSkipped(batch, existing)
    IN  [i \in 1..Len(new) |-> MessageRow(f, new[i], rules)]

allMessagesToPersist(f, batch, existing, rs) ==
    LET new == NotSkipped(batch, existing)
    IN  [i \in 1..Len(new) |-> MessageRow(f, new[i], rs)]

\* a prepare loop that pushes every new item, passed or not
preparedUnfiltered(f, batch, existing, rs) ==
    LET new == NotSkipped(batch, existing)
    IN  [i \in 1..Len(new) |->
            [outMessage |-> outMessage(f, cleanMessage(new[i].text)),
             mediaUrl   |-> new[i].mediaUrl,
             mediaType  |-> new[i].mediaType,
             telegramId |-> new[i].telegramId]]

prepared(f, batch, existing, rs) ==
    LET passed == SelectSeq(NotSkipped(batch, existing), LAMBDA m : Classify(m.text, rs))
    IN  [i \in 1..Len(passed) |->
            [outMessage |-> outMessage(f, cleanMessage(passed[i].text)),
             mediaUrl   |-> passed[i].mediaUrl,
             mediaType  |-> passed[i].mediaType,
             telegramId |-> passed[i].telegramId]]

SameKey(r1, r2) == r1.channelId = r2.channelId /\ r1.telegramId = r2.telegramId

\* a table without the unique index accepts every row
NoUniqueIndex(store, rows) == FALSE

\* Message_telegramId_channelId_key: the insert collides with a stored row or
\* two of its own rows collide
UniqueViolation(store, rows) ==
    \/ \E i \in 1..Len(rows), j \in 1..Len(store) : SameKey(rows[i], store[j])
    \/ \E i, j \in 1..Len(rows) : i < j /\ SameKey(rows[i], rows[j])

\* prisma.message.createMany: one statement, all rows or none
createManyAccepted(store, rows, ok) == ok /\ ~UniqueViolation(store, rows)

IdleCall ==
    [pc |-> "idle", channelId |-> 0, messages |-> <<>>,
     subscribers |-> {}, rules |-> {}, existing |-> {},
     toPersist |-> <<>>, prepared |-> <<>>,
     \* history of the invocation
     storedAtStart |-> {}, prior |-> {}, inserted |-> 0, emitted |-> 0]

CallIds == 1..MaxCalls

\* processMessages has returned: its locals are gone, its history stays
Returned(me, payloadIndex) ==
    [me EXCEPT !.pc = "done", !.subscribers = {}, !.rules = {}, !.existing = {},
               !.toPersist = <<>>, !.prepared = <<>>, !.emitted = payloadIndex]

Finished(c) == calls[c].pc \in {"done", "threw"}

\* rows of feed f in a store
RowsOf(store, f) == SelectSeq(store, LAMBDA r : r.channelId = f)

StoredIds(store, f) == {store[j].telegramId : j \in {k \in 1..Len(store) : store[k].channelId = f}}

\* worker.on('message'): a successful result starts processMessages
Receive(c, f, batch) ==
    /\ c = started + 1
    /\ calls[c].pc = "idle"
    /\ started' = c
    /\ calls' = [calls EXCEPT ![c] =
                    [@ EXCEPT !.pc = "prefetch", !.channelId = f, !.messages = batch,
                              !.storedAtStart = StoredIds(messages, f),
                              !.prior = {d \in CallIds : Finished(d)}]]
    /\ UNCHANGED <<handlerLog, deliverVars, storeVars, bus, faults, schedVars, filterVars, parseVars, workerVars, adminVars, starts>>

\* step 1: channelInfo, subscribers and rules, read together
Prefetch(c) ==
    /\ calls[c].pc = "prefetch"
    /\ \E ok \in DbOutcomes :
          calls' = [calls EXCEPT ![c] =
                      IF ~ok THEN [@ EXCEPT !.pc = "threw"]
                      ELSE IF channels[@.channelId] = NoChannel THEN Returned(@, 0)
                      ELSE [@ EXCEPT !.pc = "dedupe",
                                     !.subscribers = EligibleSubscribers(calls[c].channelId),
                                     !.rules = rules]]
    /\ UNCHANGED <<handlerLog, deliverVars, storeVars, started, bus, faults, schedVars, filterVars, parseVars, workerVars, adminVars, starts>>

\* steps 3 and 4: the ids converted with BigInt, the existence query, then the
\* prepare loop on its result
Dedupe(c) ==
    /\ calls[c].pc = "dedupe"
    /\ \E ok \in DbOutcomes :
          LET me == calls[c]
              existing == existingIdsSet(messages, me.channelId, me.messages)
              rows == allMessagesToPersist(me.channelId, me.messages, existing, me.rules)
              prep == prepared(me.channelId, me.messages, existing, me.rules)
          IN  calls' = [calls EXCEPT ![c] =
                          IF BigIntThrows(me.messages) \/ ~ok THEN [@ EXCEPT !.pc = "threw"]
                          ELSE IF rows = <<>> THEN Returned(@, 0)
                          ELSE [@ EXCEPT !.pc = "persist",
                                         !.existing = existing,
                                         !.toPersist = rows,
                                         !.prepared = prep]]
    /\ UNCHANGED <<handlerLog, deliverVars, storeVars, started, bus, faults, schedVars, filterVars, parseVars, workerVars, adminVars, starts>>

\* step 5: the bulk insert; a failure is caught and ignored
Persist(c) ==
    /\ calls[c].pc = "persist"
    /\ \E ok \in DbOutcomes :
          LET accepted == createManyAccepted(messages, calls[c].toPersist, ok)
          IN  /\ messages' = IF accepted THEN messages \o calls[c].toPersist ELSE messages
              /\ calls' = [calls EXCEPT ![c] =
                             [@ EXCEPT !.pc = "emit",
                                       !.inserted = IF accepted THEN Len(calls[c].toPersist) ELSE 0]]
    /\ UNCHANGED <<handlerLog, deliverVars, rules, silent, channels, started, bus, faults, schedVars, filterVars, parseVars, workerVars, adminVars, starts>>

AlertsPayload(me) ==
    [channelId     |-> me.channelId,
     channelName   |-> me.channelId,
     items         |-> me.prepared,
     subscriberIds |-> me.subscribers]

\* a sender that goes by the media kind alone
sendMethodByKind(item) ==
    IF item.mediaType = "photo" THEN "sendPhoto"
    ELSE IF item.mediaType = "video" THEN "sendVideo"
    ELSE "sendMessage"

\* bot.api.sendPhoto / sendVideo / sendMessage, chosen by the item's media
sendMethod(item) ==
    IF item.mediaUrl # "none" /\ item.mediaType = "photo" THEN "sendPhoto"
    ELSE IF item.mediaUrl # "none" /\ item.mediaType = "video" THEN "sendVideo"
    ELSE "sendMessage"

\* the arguments of the call: sendPhoto / sendVideo (chatId, p.mediaUrl, opts)
\* with opts.caption = p.outMessage; sendMessage(chatId, p.outMessage, options)
sendArgs(item) ==
    IF sendMethod(item) = "sendMessage"
    THEN [media |-> "none", caption |-> <<>>, text |-> item.outMessage]
    ELSE [media |-> item.mediaUrl, caption |-> item.outMessage, text |-> <<>>]

\* a sender that waits for every send before it returns to the publisher
allSendsAwaited(payload, k) ==
    {[payload |-> k, item |-> i, to |-> u,
      method |-> sendMethod(payload.items[i]),
      args |-> sendArgs(payload.items[i]), outcome |-> "ok"] :
         i \in 1..Len(payload.items), u \in payload.subscriberIds}

\* a sender that serves only the first recipient of the payload
allSendsFirstRecipient(payload, k) ==
    IF payload.subscriberIds = {} THEN {}
    ELSE LET first == CHOOSE u \in payload.subscriberIds : TRUE
         IN  {[payload |-> k, item |-> i, to |-> first,
               method |-> sendMethod(payload.items[i]),
      args |-> sendArgs(payload.items[i]), outcome |-> "pending"] :
                  i \in 1..Len(payload.items)}

\* sendAlerts: items.flatMap(p => subscriberIds.map(...)), every send started
\* at once; k is the position of the payload on the bus
allSends(payload, k) ==
    {[payload |-> k, item |-> i, to |-> u,
      method |-> sendMethod(payload.items[i]),
      args |-> sendArgs(payload.items[i]), outcome |-> "pending"] :
         i \in 1..Len(payload.items), u \in payload.subscriberIds}

\* a bus that hands the payload to the sender whether or not it registered
emitAlertsDirect(listeners, attempts, payload, k) == attempts \cup allSends(payload, k)

\* alertBus.emit(ALERTS_EVENT, payload): every registered handler is called
\* with the payload before emit returns; without a handler nothing happens
emitAlerts(listeners, attempts, payload, k) ==
    IF listeners > 0 THEN attempts \cup allSends(payload, k) ELSE attempts

\* step 6: emitAlerts when something passed and somebody listens
Emit(c) ==
    /\ calls[c].pc = "emit"
    /\ LET publish == Len(calls[c].prepared) > 0 /\ Cardinality(calls[c].subscribers) > 0
       IN  /\ bus' = IF publish THEN Append(bus, AlertsPayload(calls[c])) ELSE bus
           /\ sends' = IF publish
                        THEN emitAlerts(handlers, sends, AlertsPayload(calls[c]), Len(bus) + 1)
                        ELSE sends
           /\ calls' = [calls EXCEPT ![c] = Returned(@, IF publish THEN Len(bus) + 1 ELSE 0)]
    /\ UNCHANGED <<handlerLog, handlers, storeVars, started, faults, schedVars, filterVars, parseVars, workerVars, adminVars, starts>>

\* registerAlertSender(): onAlerts(payload => sendAlerts(payload)), called once by main()
Register ==
    /\ handlers = 0
    /\ handlers' = handlers + 1
    /\ UNCHANGED <<handlerLog, sends, storeVars, ingestVars, faults, schedVars, filterVars, parseVars, workerVars, adminVars, starts>>

\* a sender that writes the outcome of the send into the stored row's flag
SendSettleMarking(a, ok) ==
    /\ a \in sends
    /\ a.outcome = "pending"
    /\ sends' = (sends \ {a}) \cup {[a EXCEPT !.outcome = IF ok THEN "ok" ELSE "failed"]}
    /\ messages' = [j \in 1..Len(messages) |->
                       IF /\ messages[j].channelId = bus[a.payload].channelId
                          /\ messages[j].telegramId = bus[a.payload].items[a.item].telegramId
                       THEN [messages[j] EXCEPT !.sent = ok]
                       ELSE messages[j]]
    /\ UNCHANGED <<handlerLog, handlers, rules, silent, channels, ingestVars, faults,
                   schedVars, filterVars, parseVars, workerVars, adminVars, starts>>

\* one send settles: the Bot API call resolves, or it rejects and the
\* .catch(() => {}) of the attempt swallows the rejection
SendSettle(a, ok) ==
    /\ a \in sends
    /\ a.outcome = "pending"
    /\ sends' = (sends \ {a}) \cup {[a EXCEPT !.outcome = IF ok THEN "ok" ELSE "failed"]}
    /\ UNCHANGED <<handlerLog, handlers, storeVars, ingestVars, faults, schedVars, filterVars, parseVars, workerVars, adminVars, starts>>

-----------------------------------------------------------------------------
(* Administration: the rule commands and the do-not-disturb switch.          *)
(* The pipeline sees the rule and user tables only through its prefetch     *)
(* read, so an edit is explored at the moments a prefetch is pending: an    *)
(* edit made earlier reaches the pipeline exactly as one made then.         *)

ReadPending == \E c \in CallIds : calls[c].pc = "prefetch"

upsertRule(rs, p, ex) == {r \in rs : r.phrase # p} \cup {[phrase |-> p, exclude |-> ex]}

\* bot.command('hit')
Hit(p) ==
    /\ ReadPending
    /\ rules' = upsertRule(rules, p, FALSE)
    /\ rules' # rules
    /\ UNCHANGED <<handlerLog, deliverVars, silent, messages, channels, ingestVars, faults, schedVars, filterVars, parseVars, workerVars, adminVars, starts>>

\* bot.command('miss')
Miss(p) ==
    /\ ReadPending
    /\ rules' = upsertRule(rules, p, TRUE)
    /\ rules' # rules
    /\ UNCHANGED <<handlerLog, deliverVars, silent, messages, channels, ingestVars, faults, schedVars, filterVars, parseVars, workerVars, adminVars, starts>>

\* bot.command('del')
Del(p) ==
    /\ ReadPending
    /\ \E r \in rules : r.phrase = p
    /\ rules' = {r \in rules : r.phrase # p}
    /\ UNCHANGED <<handlerLog, deliverVars, silent, messages, channels, ingestVars, faults, schedVars, filterVars, parseVars, workerVars, adminVars, starts>>

\* callback toggle_silent; the middleware answers a banned user's update itself
ToggleSilent(u) ==
    /\ ReadPending
    /\ u \notin banned
    /\ silent' = IF u \in silent THEN silent \ {u} ELSE silent \cup {u}
    /\ UNCHANGED <<handlerLog, deliverVars, rules, messages, channels, ingestVars, faults, schedVars, filterVars, parseVars, workerVars, adminVars, starts>>

\* what an admin types after /hit or /miss (ctx.match), and the text of a
\* message sent in reply to the prompt: a message without text, such as a
\* photo or a sticker, has ctx.message.text undefined and gives ""
TypedPhrases == {<<>>, <<"sp">>, <<"A">>, <<"sp", "A">>, <<"b", "sp">>}

MessageTexts == {<<>>, <<"A">>, <<"b", "sp">>}

\* bot.command('hit') on the typed argument: trimmed, refused when empty
HitCommand(raw) ==
    /\ rules' = IF Trim(raw) = <<>> THEN rules ELSE upsertRule(rules, Trim(raw), FALSE)
    /\ UNCHANGED <<handlerLog, deliverVars, silent, messages, channels, ingestVars, faults, schedVars,
                   filterVars, parseVars, workerVars, adminVars, starts>>

\* bot.command('miss') on the typed argument
MissCommand(raw) ==
    /\ rules' = IF Trim(raw) = <<>> THEN rules ELSE upsertRule(rules, Trim(raw), TRUE)
    /\ UNCHANGED <<handlerLog, deliverVars, silent, messages, channels, ingestVars, faults, schedVars,
                   filterVars, parseVars, workerVars, adminVars, starts>>

\* callbacks admin_add_hit / admin_add_miss: the next message is awaited
PressAdd(kind) ==
    /\ adminState' = kind
    /\ adminState' # adminState
    /\ UNCHANGED <<handlerLog, deliverVars, storeVars, ingestVars, faults, schedVars, filterVars,
                   parseVars, workerVars, compaction, banned, starts>>

\* bot.on('message') in state await_hit / await_miss: the text is upserted
\* as it came and the state cleared
AwaitedMessage(text) ==
    /\ adminState \in {"await_hit", "await_miss"}
    /\ rules' = upsertRule(rules, text, adminState = "await_miss")
    /\ adminState' = "none"
    /\ UNCHANGED <<handlerLog, deliverVars, silent, messages, channels, ingestVars, faults, schedVars,
                   filterVars, parseVars, workerVars, compaction, banned, starts>>

\* bot.command('ban'): prisma.user.update({ data: { isBanned: true } })
Ban(u) ==
    /\ ReadPending
    /\ u \notin banned
    /\ banned' = banned \cup {u}
    /\ UNCHANGED <<handlerLog, deliverVars, storeVars, ingestVars, faults, schedVars, filterVars,
                   parseVars, workerVars, compaction, adminState, starts>>

\* bot.command('unban')
Unban(u) ==
    /\ ReadPending
    /\ u \in banned
    /\ banned' = banned \ {u}
    /\ UNCHANGED <<handlerLog, deliverVars, storeVars, ingestVars, faults, schedVars, filterVars,
                   parseVars, workerVars, compaction, adminState, starts>>

\* no compaction is running
NoCompaction == [pc |-> "idle", rules |-> {}, todo |-> {}]

\* callback admin_compact: prisma.filterPhrase.findMany(); with no rules the
\* handler answers and returns
CompactRead ==
    /\ compaction.pc = "idle"
    /\ rules # {}
    /\ compaction' = [pc |-> "delete", rules |-> rules, todo |-> rules]
    /\ UNCHANGED <<handlerLog, deliverVars, storeVars, ingestVars, faults, schedVars, filterVars,
                   parseVars, workerVars, adminState, banned, starts>>

\* admin_compact: await prisma.filterPhrase.deleteMany()
CompactDelete ==
    /\ compaction.pc = "delete"
    /\ rules' = {}
    /\ compaction' = [compaction EXCEPT !.pc = "reset"]
    /\ UNCHANGED <<handlerLog, deliverVars, silent, messages, channels, ingestVars, faults, schedVars,
                   filterVars, parseVars, workerVars, adminState, banned, starts>>

\* admin_compact: await $executeRawUnsafe(DELETE FROM sqlite_sequence ...)
CompactReset ==
    /\ compaction.pc = "reset"
    /\ compaction' = [compaction EXCEPT !.pc = "create"]
    /\ UNCHANGED <<handlerLog, deliverVars, storeVars, ingestVars, faults, schedVars, filterVars,
                   parseVars, workerVars, adminState, banned, starts>>

\* admin_compact: one await prisma.filterPhrase.create(...) of the loop, in
\* the order findMany gave, which no orderBy fixes; after the last one the
\* handler answers and returns
CompactCreate ==
    /\ compaction.pc = "create"
    /\ \E r \in compaction.todo :
          /\ rules' = rules \cup {r}
          /\ compaction' = IF compaction.todo = {r} THEN NoCompaction
                            ELSE [compaction EXCEPT !.todo = @ \ {r}]
    /\ UNCHANGED <<handlerLog, deliverVars, silent, messages, channels, ingestVars, faults, schedVars,
                   filterVars, parseVars, workerVars, adminState, banned, starts>>

-----------------------------------------------------------------------------
(* The poll scheduler: Scraper.start, refreshWorkers, triggerScrapeCycle *)

\* new Scraper(1): the loop sleeps intervalSeconds * 1000 ms = 2 units
intervalUnits == 2

\* /addchannel writes scrapTimeout 2500 ms = 5 units
AddChannelTimeout == 5

\* Date.now() when the process starts.  The real value (ms since 1970) exceeds
\* every value a 32-bit scrapTimeout column can hold, so a feed never polled
\* (lastScrape 0) always has elapsed >= scrapTimeout.
StartTime == 2 * AddChannelTimeout

EndTime == StartTime + MaxTime

Channel(t, last) == [present |-> TRUE, scrapTimeout |-> t, lastScrapedAt |-> last]

Registered == {f \in Feeds : channels[f] # NoChannel}

\* channel.lastScrapedAt ? new Date(channel.lastScrapedAt).getTime() : 0, null being 0
lastScrape(ch) == ch.lastScrapedAt

\* a plausible slip: strictly more than the interval
DueStrict(ch, now) == now - lastScrape(ch) > ch.scrapTimeout

\* elapsed >= channel.scrapTimeout
Due(ch, now) == now - lastScrape(ch) >= ch.scrapTimeout

\* the feeds the dispatch loop posts a job to, from the rows it read
\* a cycle that takes every due feed, with or without a worker
toScrapeAllDue(snapshot, now, table) ==
    {f \in Feeds : snapshot[f] # NoChannel /\ Due(snapshot[f], now)}

\* a cycle that posts nothing while any fetch is unanswered
toScrapeWhenIdle(snapshot, now, table) ==
    IF \E f \in Feeds : inflight[f] > 0 THEN {}
    ELSE {f \in Feeds : snapshot[f] # NoChannel /\ Due(snapshot[f], now) /\ f \in table}

toScrape(snapshot, now, table) ==
    {f \in Feeds : snapshot[f] # NoChannel /\ Due(snapshot[f], now) /\ f \in table}

\* a transaction that commits its updates one by one: a failure keeps the first
WriteFirstOnly(table, ids, now, ok) ==
    IF ok THEN [f \in Feeds |-> IF f \in ids THEN [table[f] EXCEPT !.lastScrapedAt = now]
                                ELSE table[f]]
    ELSE IF ids = {} THEN table
    ELSE LET first == CHOOSE f \in ids : \A g \in ids : f <= g
         IN  [table EXCEPT ![first].lastScrapedAt = now]

\* prisma.$transaction of one update per dispatched feed: all of them or none
updateLastScrapedAt(table, ids, now, ok) ==
    IF ok THEN [f \in Feeds |-> IF f \in ids THEN [table[f] EXCEPT !.lastScrapedAt = now]
                                ELSE table[f]]
    ELSE table

\* an upsert whose update branch rewrites the whole row
upsertResetting(table, f) == [table EXCEPT ![f] = Channel(AddChannelTimeout, 0)]

\* prisma.channel.upsert({ update: { scrapTimeout: 2500 }, create: { ..., scrapTimeout: 2500 } })
upsertChannel(table, f) ==
    IF table[f] = NoChannel THEN [table EXCEPT ![f] = Channel(AddChannelTimeout, 0)]
    ELSE [table EXCEPT ![f].scrapTimeout = AddChannelTimeout]

NoCycle ==
    [now |-> 0, snapshot |-> [f \in Feeds |-> NoChannel], table |-> {},
     posted |-> {}, written |-> {}, phase |-> "none",
     first |-> FALSE, outstanding |-> [f \in Feeds |-> 0]]

IdleCyc == [first |-> TRUE, ids |-> {}, now |-> 0, since |-> 0,
            snapshot |-> [f \in Feeds |-> NoChannel], toScrape |-> {}]

\* in-flight table with no job outstanding
NoJobs == [f \in Feeds |-> 0]

\* while (this.isRunning): where start() goes once a scrape cycle is over
loopTop(running) == IF running THEN "refreshRead" ELSE "returned"

\* worker.postMessage(job) for every feed of ids
postJobs(table, ids) == [f \in Feeds |-> IF f \in ids THEN table[f] + 1 ELSE table[f]]

\* logger.error(`Worker error for ...`, result.channelId, ...)
WorkerErrorLine(f) == [kind |-> "workerError", channelId |-> f]

\* an ensure-step that spawns only into an empty table
spawnIfEmpty(table, ids) == IF table = {} THEN ids ELSE table

\* refreshWorkers: spawnWorker(channel.id) for every feed read that has no entry
spawnMissing(table, ids) == table \cup ids

\* start(), which main() calls once: the isRunning guard, then the first
\* refreshWorkers
Start ==
    /\ ~isRunning
    /\ spc = "idle"
    /\ isRunning' = TRUE
    /\ spc' = "refreshRead"
    /\ cyc' = IdleCyc
    /\ starts' = starts + 1
    /\ UNCHANGED <<handlerLog, deliverVars, storeVars, ingestVars, faults, clock, workers, lastCycle,
                   inflight, filterVars, parseVars, workerVars, adminVars>>

\* calls of start() explored on one Scraper
MaxStarts == 3

\* a start() without the isRunning test: a further loop begins at its first
\* refreshWorkers
StartAgainUnguarded ==
    /\ isRunning
    /\ starts < MaxStarts
    /\ starts' = starts + 1
    /\ isRunning' = TRUE
    /\ spc' = "refreshRead"
    /\ cyc' = IdleCyc
    /\ UNCHANGED <<handlerLog, deliverVars, storeVars, ingestVars, faults, clock, workers, lastCycle,
                   inflight, filterVars, parseVars, workerVars, adminVars>>

\* start() on a scraper that is running: if (this.isRunning) return
StartAgain ==
    /\ isRunning
    /\ starts < MaxStarts
    /\ starts' = starts + 1
    /\ UNCHANGED <<handlerLog, deliverVars, storeVars, ingestVars, faults, schedVars, filterVars,
                   parseVars, workerVars, adminVars>>

\* refreshWorkers: prisma.channel.findMany(); start() does not catch its failure
RefreshRead ==
    /\ spc = "refreshRead"
    /\ \E ok \in DbOutcomes :
          IF ok THEN /\ cyc' = [cyc EXCEPT !.ids = Registered]
                     /\ spc' = "refreshSpawn"
          ELSE /\ spc' = "rejected"
               /\ UNCHANGED cyc
    /\ UNCHANGED <<handlerLog, deliverVars, storeVars, ingestVars, faults, clock, workers, lastCycle,
                   isRunning, inflight, filterVars, parseVars, workerVars, adminVars, starts>>

\* refreshWorkers: spawnWorker for every feed read that has no table entry; then
\* the first scrape cycle at once, or the loop's delay
RefreshSpawn ==
    /\ spc = "refreshSpawn"
    /\ workers' = spawnMissing(workers, cyc.ids)
    /\ IF cyc.first
          THEN /\ spc' = "cycleRead"
               /\ cyc' = [cyc EXCEPT !.ids = {}, !.now = clock]
          ELSE /\ spc' = "delay"
               /\ cyc' = [cyc EXCEPT !.ids = {}, !.since = clock]
    /\ UNCHANGED <<handlerLog, deliverVars, storeVars, ingestVars, faults, clock, lastCycle,
                   isRunning, inflight, filterVars, parseVars, workerVars, adminVars, starts>>

\* delay(intervalSeconds * 1000) elapses; triggerScrapeCycle takes now = new Date()
DelayDone ==
    /\ spc = "delay"
    /\ clock >= cyc.since + intervalUnits
    /\ spc' = "cycleRead"
    /\ cyc' = [cyc EXCEPT !.now = clock, !.since = 0]
    /\ UNCHANGED <<handlerLog, deliverVars, storeVars, ingestVars, faults, clock, workers, lastCycle,
                   isRunning, inflight, filterVars, parseVars, workerVars, adminVars, starts>>

\* triggerScrapeCycle: prisma.channel.findMany(); a failure is caught by start()
CycleRead ==
    /\ spc = "cycleRead"
    /\ \E ok \in DbOutcomes :
          IF ok THEN /\ cyc' = [cyc EXCEPT !.snapshot = channels]
                     /\ spc' = "dispatch"
          ELSE /\ cyc' = [cyc EXCEPT !.first = FALSE, !.now = 0]
               /\ spc' = loopTop(isRunning)
    /\ UNCHANGED <<handlerLog, deliverVars, storeVars, ingestVars, faults, clock, workers, lastCycle,
                   isRunning, inflight, filterVars, parseVars, workerVars, adminVars, starts>>

\* triggerScrapeCycle: the loop that posts a job to the worker of every due feed
CycleDispatch ==
    /\ spc = "dispatch"
    /\ LET ids == toScrape(cyc.snapshot, cyc.now, workers)
       IN  /\ cyc' = [cyc EXCEPT !.toScrape = ids, !.first = FALSE,
                                  !.snapshot = [f \in Feeds |-> NoChannel],
                                  !.now = IF ids = {} THEN 0 ELSE @]
           /\ lastCycle' = [now |-> cyc.now, snapshot |-> cyc.snapshot,
                             table |-> workers, posted |-> ids, written |-> {},
                             phase |-> IF ids = {} THEN "done" ELSE "posted",
                             first |-> cyc.first,
                             outstanding |-> inflight]
           /\ inflight' = postJobs(inflight, ids)
           /\ spc' = IF ids = {} THEN loopTop(isRunning) ELSE "cycleWrite"
    /\ UNCHANGED <<handlerLog, deliverVars, storeVars, ingestVars, faults, clock, workers, isRunning,
                   filterVars, parseVars, workerVars, adminVars, starts>>

\* triggerScrapeCycle: the transaction; a failure is caught by start()
CycleWrite ==
    /\ spc = "cycleWrite"
    /\ \E ok \in DbOutcomes :
          /\ channels' = updateLastScrapedAt(channels, cyc.toScrape, cyc.now, ok)
          /\ lastCycle' = [lastCycle EXCEPT
                              !.written = {f \in Feeds : channels'[f] # channels[f]},
                              !.phase = "done"]
    /\ spc' = loopTop(isRunning)
    /\ cyc' = [cyc EXCEPT !.toScrape = {}, !.now = 0]
    /\ UNCHANGED <<handlerLog, deliverVars, rules, silent, messages, ingestVars, faults, clock, workers,
                   isRunning, inflight, filterVars, parseVars, workerVars, adminVars, starts>>

\* worker.on('error') / worker.on('exit'): the table entry is deleted; the
\* thread is gone and with it the fetches it had not answered
WorkerExit(f) ==
    /\ f \in workers
    /\ workers' = workers \ {f}
    /\ inflight' = [inflight EXCEPT ![f] = 0]
    /\ UNCHANGED <<handlerLog, deliverVars, storeVars, ingestVars, faults, clock, spc, cyc, lastCycle,
                   isRunning, filterVars, parseVars, workerVars, adminVars, starts>>

\* worker.on('error'): an uncaught exception in the worker; the crash is
\* logged and the entry deleted, the thread is still on its way out
WorkerError(f) ==
    /\ f \in workers
    /\ dying[f] < MaxStray
    /\ workers' = workers \ {f}
    /\ inflight' = [inflight EXCEPT ![f] = 0]
    /\ dying' = [dying EXCEPT ![f] = @ + 1]
    /\ UNCHANGED <<handlerLog, deliverVars, storeVars, ingestVars, faults, clock, spc, cyc,
                   lastCycle, isRunning, filterVars, parseVars, orphans, adminVars, starts>>

\* worker.on('exit') of a worker that had emitted 'error': workers.delete(id)
\* removes whatever entry the feed has by now; a replacement spawned in
\* between stays alive, with its jobs, outside the table
LateExit(f) ==
    /\ dying[f] > 0
    /\ f \in workers => orphans[f] < MaxStray
    /\ dying' = [dying EXCEPT ![f] = @ - 1]
    /\ workers' = workers \ {f}
    /\ orphans' = IF f \in workers THEN [orphans EXCEPT ![f] = @ + 1] ELSE orphans
    /\ UNCHANGED <<handlerLog, deliverVars, storeVars, ingestVars, faults, clock, spc, cyc,
                   lastCycle, isRunning, inflight, filterVars, parseVars, adminVars, starts>>

\* worker.on('error') of a worker that is at work on a job: a replacement
\* that has not been given a job yet does not fail
CrashAtWork(f) ==
    /\ inflight[f] > 0
    /\ WorkerError(f)

\* the worker answers a job with success: true; the handler hands the items to
\* processMessages (the steps of that call are those of Receive .. Emit)
FetchSucceed(f) ==
    /\ inflight[f] > 0
    /\ inflight' = [inflight EXCEPT ![f] = @ - 1]
    /\ UNCHANGED <<handlerLog, deliverVars, storeVars, ingestVars, faults, clock, workers, spc, cyc,
                   lastCycle, isRunning, filterVars, parseVars, workerVars, adminVars, starts>>

\* a worker without the catch: the failure ends the thread, the 'error'
\* handler logs it and deletes the entry
FetchFailCrashing(f) ==
    /\ inflight[f] > 0
    /\ inflight' = [inflight EXCEPT ![f] = 0]
    /\ workers' = workers \ {f}
    /\ handlerLog' = handlerLog \cup {WorkerErrorLine(f)}
    /\ UNCHANGED <<deliverVars, storeVars, ingestVars, faults, clock, spc, cyc,
                   lastCycle, isRunning, filterVars, parseVars, workerVars, adminVars, starts>>

\* scrapeChannel threw: the worker answers with success: false and the message
\* handler logs the error
FetchFail(f) ==
    /\ inflight[f] > 0
    /\ inflight' = [inflight EXCEPT ![f] = @ - 1]
    /\ handlerLog' = handlerLog \cup {WorkerErrorLine(f)}
    /\ UNCHANGED <<deliverVars, storeVars, ingestVars, faults, clock, workers, spc, cyc,
                   lastCycle, isRunning, filterVars, parseVars, workerVars, adminVars, starts>>

\* the scheduler is stopped: the flag that while (this.isRunning) tests is
\* cleared; the class itself has no method that clears it
Stop ==
    /\ isRunning
    /\ isRunning' = FALSE
    /\ UNCHANGED <<handlerLog, deliverVars, storeVars, ingestVars, faults, clock, workers, spc, cyc,
                   lastCycle, inflight, filterVars, parseVars, workerVars, adminVars, starts>>

\* bot.command('addchannel') and the await_channel message flow
AddChannel(f) ==
    /\ channels' = upsertChannel(channels, f)
    /\ channels' # channels
    /\ UNCHANGED <<handlerLog, deliverVars, rules, silent, messages, ingestVars, faults, schedVars, filterVars, parseVars, workerVars, adminVars, starts>>

\* time passes
Tick ==
    /\ clock < EndTime
    /\ clock' = clock + 1
    /\ UNCHANGED <<handlerLog, deliverVars, storeVars, ingestVars, faults, workers, spc, cyc, lastCycle,
                   isRunning, inflight, filterVars, parseVars, workerVars, adminVars, starts>>

-----------------------------------------------------------------------------
(* The filter harness: one classification of a drawn text under a drawn rule set *)

FilterChars == {"a", "A", "b", "sp", "rsq", "bp"}

Texts == SeqsUpTo(FilterChars, MaxTextLen)

\* phrases as stored: upper case, padded, with either apostrophe
FilterPhrases == {<<"A">>, <<"sp", "b">>, <<"rsq">>}

RuleSets ==
    {{[phrase |-> p, exclude |-> m[p] = "exclude"] : p \in {q \in FilterPhrases : m[q] # "absent"}} :
        m \in [FilterPhrases -> {"absent", "include", "exclude"}]}

FilterRun ==
    /\ fOut = "none"
    /\ fOut' = IF Classify(fIn.text, fIn.rules) THEN "passed" ELSE "filtered"
    /\ UNCHANGED <<handlerLog, deliverVars, storeVars, ingestVars, faults, schedVars, fIn, parseVars, workerVars, adminVars, starts>>

\* scrapeChannel on one block of the page
ParseRun ==
    /\ pOut.state = "pending"
    /\ pOut' = parseBlock(pIn)
    /\ UNCHANGED <<handlerLog, deliverVars, storeVars, ingestVars, faults, schedVars,
                   filterVars, pIn, workerVars, adminVars, starts>>

-----------------------------------------------------------------------------
(* Specifications *)

QuietIngest ==
    /\ calls = [c \in CallIds |-> IdleCall]
    /\ started = 0
    /\ bus = <<>>

QuietSched ==
    /\ clock = StartTime
    /\ workers = {}
    /\ spc = "idle"
    /\ cyc = IdleCyc
    /\ lastCycle = NoCycle
    /\ isRunning = FALSE
    /\ inflight = NoJobs
    /\ handlerLog = {}

\* main() has registered the alert sender before it starts the scraper
SenderRegistered ==
    /\ handlers = 1
    /\ sends = {}

QuietFilter ==
    /\ fIn = [text |-> <<>>, rules |-> {}]
    /\ fOut = "off"

QuietAdmin ==
    /\ compaction = NoCompaction
    /\ adminState = "none"
    /\ banned = {}
    /\ starts = 0

QuietWorkers ==
    /\ dying = NoJobs
    /\ orphans = NoJobs

QuietParse ==
    /\ pIn = NoBlock
    /\ pOut = [state |-> "off", item |-> NoItem]

EmptyStores ==
    /\ rules = {}
    /\ silent = {}
    /\ messages = <<>>

\* the ingestion pipeline with the administration around it
InitIngest ==
    /\ EmptyStores
    /\ channels = [f \in Feeds |-> Channel(AddChannelTimeout, 0)]
    /\ QuietIngest /\ QuietParse /\ QuietSched /\ QuietWorkers /\ QuietAdmin /\ SenderRegistered /\ QuietFilter

NextIngest ==
    \/ \E c \in CallIds, f \in IngestFeeds, b \in Batches : Receive(c, f, b)
    \/ \E c \in CallIds : Prefetch(c)
    \/ \E c \in CallIds : Dedupe(c)
    \/ \E c \in CallIds : Persist(c)
    \/ \E c \in CallIds : Emit(c)
    \/ \E p \in HitPhrases : Hit(p)
    \/ \E p \in MissPhrases : Miss(p)
    \/ \E p \in HitPhrases \cup MissPhrases : Del(p)
    \/ \E u \in {v \in Users : subscribedTo(v) \cap IngestFeeds # {}} : ToggleSilent(u)

InitIngestReliable == InitIngest /\ faults = FALSE

InitIngestFaulty == InitIngest /\ faults = TRUE

\* the store answers every operation
SpecIngest == InitIngestReliable /\ [][NextIngest]_vars

\* any database operation may fail
SpecIngestFaulty == InitIngestFaulty /\ [][NextIngest]_vars

\* the pipeline fed with the batches a page with a malformed post gives
NextMalformed ==
    \/ \E c \in CallIds, f \in IngestFeeds, b \in ScrapedBatches : Receive(c, f, b)
    \/ \E c \in CallIds : Prefetch(c)
    \/ \E c \in CallIds : Dedupe(c)
    \/ \E c \in CallIds : Persist(c)
    \/ \E c \in CallIds : Emit(c)
    \/ \E p \in HitPhrases : Hit(p)

SpecMalformed == InitIngestReliable /\ [][NextMalformed]_vars

\* feed 2, which both users follow, and two posts that pass the rule /hit A
DeliverFeeds == {2}

DeliverPool ==
    { RawItem(1, <<"a">>, NoMedia),
      RawItem(2, <<"a", "sp", "B">>, Photo) }

DeliverBatches == SeqsUpTo(DeliverPool, MaxBatch)

\* the bus and the sender: the handler is registered at some moment, payloads
\* are published before and after it, and every send settles on its own
InitDeliver ==
    /\ rules = {[phrase |-> p, exclude |-> FALSE] : p \in HitPhrases}
    /\ silent = {}
    /\ messages = <<>>
    /\ channels = [f \in Feeds |-> Channel(AddChannelTimeout, 0)]
    /\ QuietIngest /\ QuietParse /\ QuietSched /\ QuietWorkers /\ QuietAdmin /\ QuietFilter
    /\ handlers = 0
    /\ sends = {}
    /\ faults = FALSE

NextDeliver ==
    \/ \E c \in CallIds, f \in DeliverFeeds, b \in DeliverBatches : Receive(c, f, b)
    \/ \E c \in CallIds : Prefetch(c)
    \/ \E c \in CallIds : Dedupe(c)
    \/ \E c \in CallIds : Persist(c)
    \/ \E c \in CallIds : Emit(c)
    \/ Register
    \/ \E a \in sends, ok \in BOOLEAN : SendSettle(a, ok)

SpecDeliver == InitDeliver /\ [][NextDeliver]_vars

\* a locator without kind and a kind without locator, as the parser gives
\* them for a video region with its own src and for a <video> without src
LocatorOnly == [mediaUrl |-> "m", mediaType |-> "none"]
KindOnly == [mediaUrl |-> "none", mediaType |-> "video"]

\* posts that pass the rule /hit A, one for every media outcome of the parser
RoutePool ==
    { RawItem(1, <<"a">>, NoMedia),
      RawItem(2, <<"a">>, Photo),
      RawItem(3, <<"a">>, Video),
      RawItem(4, <<"a">>, LocatorOnly),
      RawItem(5, <<"a">>, KindOnly) }

RouteBatches == SeqsUpTo(RoutePool, MaxBatch)

\* ingestion on feed 2 with the sender registered: every publication runs
\* sendAlerts
InitRouting ==
    /\ rules = {[phrase |-> p, exclude |-> FALSE] : p \in HitPhrases}
    /\ silent = {}
    /\ messages = <<>>
    /\ channels = [f \in Feeds |-> Channel(AddChannelTimeout, 0)]
    /\ QuietIngest /\ QuietParse /\ QuietSched /\ QuietWorkers /\ QuietAdmin /\ SenderRegistered /\ QuietFilter
    /\ faults = FALSE

NextRouting ==
    \/ \E c \in CallIds, f \in DeliverFeeds, b \in RouteBatches : Receive(c, f, b)
    \/ \E c \in CallIds : Prefetch(c)
    \/ \E c \in CallIds : Dedupe(c)
    \/ \E c \in CallIds : Persist(c)
    \/ \E c \in CallIds : Emit(c)

SpecRouting == InitRouting /\ [][NextRouting]_vars

\* ingestion on both feeds, whose pages carry the same source item ids
NextFeeds ==
    \/ \E c \in CallIds, f \in Feeds, b \in DeliverBatches : Receive(c, f, b)
    \/ \E c \in CallIds : Prefetch(c)
    \/ \E c \in CallIds : Dedupe(c)
    \/ \E c \in CallIds : Persist(c)
    \/ \E c \in CallIds : Emit(c)

SpecFeeds == InitRouting /\ [][NextFeeds]_vars

\* ingestion on feed 1 under the rules /hit A and /miss "b ", with an admin
\* who presses the compact button
InitCompact ==
    /\ rules = {[phrase |-> p, exclude |-> FALSE] : p \in HitPhrases}
                  \cup {[phrase |-> p, exclude |-> TRUE] : p \in MissPhrases}
    /\ silent = {}
    /\ messages = <<>>
    /\ channels = [f \in Feeds |-> Channel(AddChannelTimeout, 0)]
    /\ QuietIngest /\ QuietParse /\ QuietSched /\ QuietWorkers /\ QuietAdmin /\ SenderRegistered /\ QuietFilter
    /\ faults = FALSE

NextCompact ==
    \/ \E c \in CallIds, f \in IngestFeeds, b \in Batches : Receive(c, f, b)
    \/ \E c \in CallIds : Prefetch(c)
    \/ \E c \in CallIds : Dedupe(c)
    \/ \E c \in CallIds : Persist(c)
    \/ \E c \in CallIds : Emit(c)
    \/ CompactRead
    \/ CompactDelete
    \/ CompactReset
    \/ CompactCreate

SpecCompact == InitCompact /\ [][NextCompact]_vars

\* every way an admin adds a rule
NextRules ==
    \/ \E raw \in TypedPhrases : HitCommand(raw)
    \/ \E raw \in TypedPhrases : MissCommand(raw)
    \/ \E kind \in {"await_hit", "await_miss"} : PressAdd(kind)
    \/ \E text \in MessageTexts : AwaitedMessage(text)

SpecRules == InitIngestReliable /\ [][NextRules]_vars

\* ingestion on feed 2 while the admin bans and unbans its followers and
\* the followers switch do-not-disturb
NextBan ==
    \/ \E c \in CallIds, f \in DeliverFeeds, b \in DeliverBatches : Receive(c, f, b)
    \/ \E c \in CallIds : Prefetch(c)
    \/ \E c \in CallIds : Dedupe(c)
    \/ \E c \in CallIds : Persist(c)
    \/ \E c \in CallIds : Emit(c)
    \/ \E u \in Users : Ban(u)
    \/ \E u \in Users : Unban(u)
    \/ \E u \in Users : ToggleSilent(u)

SpecBan == InitRouting /\ [][NextBan]_vars

\* the scheduler, the workers' exits, the clock and /addchannel
InitSched ==
    /\ EmptyStores
    /\ \E last \in {0, StartTime - 1, StartTime - 5}, second \in {NoChannel, Channel(AddChannelTimeout, 0)} :
          channels = [f \in Feeds |-> IF f = 1 THEN Channel(4, last) ELSE second]
    /\ QuietIngest /\ QuietParse /\ QuietSched /\ QuietWorkers /\ QuietAdmin /\ SenderRegistered /\ QuietFilter

NextSched ==
    \/ Start
    \/ RefreshRead
    \/ RefreshSpawn
    \/ DelayDone
    \/ CycleRead
    \/ CycleDispatch
    \/ CycleWrite
    \/ \E f \in Feeds : WorkerExit(f)
    \/ \E f \in Feeds : AddChannel(f)
    \/ Tick

InitSchedReliable == InitSched /\ faults = FALSE

InitSchedFaulty == InitSched /\ faults = TRUE

SpecSched == InitSchedReliable /\ [][NextSched]_vars

SpecSchedFaulty == InitSchedFaulty /\ [][NextSched]_vars

\* the scheduling loop of a scraper whose start() is called again
NextRestart ==
    \/ Start
    \/ StartAgain
    \/ RefreshRead
    \/ RefreshSpawn
    \/ DelayDone
    \/ CycleRead
    \/ CycleDispatch
    \/ CycleWrite
    \/ Tick

SpecRestart == InitSchedReliable /\ [][NextRestart]_vars

\* the scheduler with a stop that may arrive at any point of the tick
NextStop == NextSched \/ Stop

SpecStop == InitSchedReliable /\ [][NextStop]_vars

\* the scheduler with workers whose 'error' and 'exit' events arrive apart
NextWorkers ==
    \/ NextSched
    \/ \E f \in Feeds : WorkerError(f)
    \/ \E f \in Feeds : LateExit(f)

SpecWorkers == InitSchedReliable /\ [][NextWorkers]_vars

\* the scheduler together with the workers' answers to the jobs it posts
NextFetch ==
    \/ NextSched
    \/ \E f \in Feeds : FetchSucceed(f)
    \/ \E f \in Feeds : FetchFail(f)

SpecFetch == InitSchedReliable /\ [][NextFetch]_vars

\* the scheduler with workers that fail only while they run a job, each
\* failure reported by an 'error' event and, apart from it, an 'exit' event
NextPolling ==
    \/ Start
    \/ RefreshRead
    \/ RefreshSpawn
    \/ DelayDone
    \/ CycleRead
    \/ CycleDispatch
    \/ CycleWrite
    \/ \E f \in Feeds : AddChannel(f)
    \/ Tick
    \/ \E f \in Feeds : CrashAtWork(f)
    \/ \E f \in Feeds : LateExit(f)

SpecPolling == InitSchedReliable /\ [][NextPolling]_vars

InitFilter ==
    /\ EmptyStores
    /\ channels = [f \in Feeds |-> NoChannel]
    /\ QuietIngest /\ QuietParse /\ QuietSched /\ QuietWorkers /\ QuietAdmin /\ SenderRegistered
    /\ fIn \in [text : Texts, rules : RuleSets]
    /\ fOut = "none"
    /\ faults = FALSE

SpecFilter == InitFilter /\ [][FilterRun]_vars

\* the parser on every block
InitParse ==
    /\ EmptyStores
    /\ channels = [f \in Feeds |-> NoChannel]
    /\ QuietIngest /\ QuietSched /\ QuietWorkers /\ QuietAdmin /\ SenderRegistered /\ QuietFilter
    /\ pIn \in Blocks
    /\ pOut = [state |-> "pending", item |-> NoItem]
    /\ faults = FALSE

SpecParse == InitParse /\ [][ParseRun]_vars

-----------------------------------------------------------------------------
(* Properties of the ingestion pipeline *)

\* C1: exactly-once persistence.  Whatever the sequence and interleaving of
\* processMessages calls, the message store never holds two records with the
\* same (feed id, source item id) pair.
ExactlyOncePersistence ==
    \A i, j \in 1..Len(messages) :
        (messages[i].channelId = messages[j].channelId
            /\ messages[i].telegramId = messages[j].telegramId) => i = j

\* two overlapping calls both missed an id in their existence query; one stored
\* it and the insert of the other was turned away by the unique index
OverlapRejected ==
    \E c, d \in CallIds :
        /\ c # d
        /\ calls[c].pc = "emit" /\ calls[c].inserted = 0
        /\ calls[d].inserted > 0
        /\ d \notin calls[c].prior /\ c \notin calls[d].prior
        /\ \E i \in 1..Len(calls[c].toPersist), j \in 1..Len(messages) :
              /\ messages[j].channelId = calls[c].toPersist[i].channelId
              /\ messages[j].telegramId = calls[c].toPersist[i].telegramId
              /\ messages[j].telegramId \notin calls[c].existing

\* C2 as stated: a batch identical to one whose ingestion has finished persists
\* no further record and publishes no payload.
Idempotence ==
    \A c, d \in CallIds :
        (/\ d \in calls[c].prior
         /\ calls[d].pc = "done" /\ calls[c].pc = "done"
         /\ calls[c].channelId = calls[d].channelId
         /\ calls[c].messages = calls[d].messages)
        => (calls[c].inserted = 0 /\ calls[c].emitted = 0)

\* C3: dedupe boundary.  An item whose id is stored for the feed when the
\* existence query runs is neither prepared for insert nor for delivery; no
\* record is added and no delivery item is published for an id that was stored
\* when the call began; and no step changes or removes a stored record.
DedupeBoundary ==
    [][ /\ Len(messages') >= Len(messages)
        /\ \A i \in 1..Len(messages) : messages'[i] = messages[i]
        /\ \A c \in CallIds :
              LET old == calls[c]
                  new == calls'[c]
                  storedNow == {messages[j].telegramId :
                                  j \in {k \in 1..Len(messages) :
                                            messages[k].channelId = old.channelId}}
              IN  /\ (old.pc = "dedupe" /\ new.pc = "persist") =>
                        /\ \A i \in 1..Len(new.toPersist) :
                              new.toPersist[i].telegramId \notin storedNow
                        /\ \A i \in 1..Len(new.prepared) :
                              new.prepared[i].telegramId \notin storedNow
                  /\ (old.pc = "persist" /\ new.pc = "emit") =>
                        \A i \in (Len(messages) + 1)..Len(messages') :
                            messages'[i].channelId = old.channelId
                                => messages'[i].telegramId \notin old.storedAtStart
                  /\ (old.pc = "emit" /\ new.pc = "done" /\ Len(bus') > Len(bus)) =>
                        \A i \in 1..Len(bus'[Len(bus')].items) :
                            bus'[Len(bus')].items[i].telegramId \notin old.storedAtStart
      ]_vars

\* a batch carries an edited version of a stored post, one that would now pass
\* the filter, next to a new post: the edited one is not prepared and the
\* stored copy keeps its first text and flag
EditedStoredItemDropped ==
    \E c \in CallIds :
        /\ calls[c].pc = "emit"
        /\ \E k \in 1..Len(calls[c].messages), j \in 1..Len(messages) :
              LET m == calls[c].messages[k]
              IN  /\ m.telegramId \in calls[c].storedAtStart
                  /\ messages[j].channelId = calls[c].channelId
                  /\ messages[j].telegramId = m.telegramId
                  /\ messages[j].message # cleanMessage(m.text)
                  /\ messages[j].mediaUrl # m.mediaUrl
                  /\ ~messages[j].sent
                  /\ Classify(m.text, calls[c].rules)
                  /\ \A i \in 1..Len(calls[c].prepared) :
                        calls[c].prepared[i].telegramId # m.telegramId
                  /\ \A i \in 1..Len(calls[c].toPersist) :
                        calls[c].toPersist[i].telegramId # m.telegramId

\* C4: filter classification.  A text passes iff no exclude-phrase occurs in its
\* normalized form and at least one include-phrase does; a text matching both
\* an include-phrase and an exclude-phrase is filtered out.
FilterClassification ==
    fOut \in {"passed", "filtered"} =>
        LET t == normalize(cleanMessage(fIn.text))
            Occurs(p) == \E i \in 1..(Len(t) + 1) : \E j \in (i - 1)..Len(t) : SubSeq(t, i, j) = p
            excluded == \E r \in fIn.rules : r.exclude /\ Occurs(normalize(r.phrase))
            included == \E r \in fIn.rules : ~r.exclude /\ Occurs(normalize(r.phrase))
        IN  (fOut = "passed") <=> (~excluded /\ included)

\* a text in which an include-phrase and an exclude-phrase both occur has been
\* classified, and it was filtered out
BothMatchFilteredOut ==
    /\ fOut = "filtered"
    /\ \E r \in fIn.rules :
          r.exclude /\ Includes(normalize(cleanMessage(fIn.text)), normalize(r.phrase))
    /\ \E r \in fIn.rules :
          ~r.exclude /\ Includes(normalize(cleanMessage(fIn.text)), normalize(r.phrase))

\* C5 as stated: when the rule store was empty at the prefetch, every new item
\* of the batch is in the store with flag false once the insert step is over,
\* and nothing is prepared for delivery.
NoRulesNoPass ==
    \A c \in CallIds :
        (calls[c].pc = "emit" /\ calls[c].rules = {}) =>
            /\ calls[c].prepared = <<>>
            /\ \A k \in 1..Len(calls[c].messages) :
                  calls[c].messages[k].telegramId \notin calls[c].existing =>
                      \E j \in 1..Len(messages) :
                          /\ messages[j].channelId = calls[c].channelId
                          /\ messages[j].telegramId = calls[c].messages[k].telegramId
                          /\ ~messages[j].sent

\* C6 as stated: once the insert step of an ingestion is over, every item of
\* its batch that was not stored at the existence query is in the store, with a
\* flag equal to its filter outcome under the rules that ingestion read.
AuditCompleteness ==
    \A c \in CallIds :
        calls[c].pc = "emit" =>
            \A k \in 1..Len(calls[c].messages) :
                calls[c].messages[k].telegramId \notin calls[c].existing =>
                    \E j \in 1..Len(messages) :
                        /\ messages[j].channelId = calls[c].channelId
                        /\ messages[j].telegramId = calls[c].messages[k].telegramId
                        /\ messages[j].sent = Classify(calls[c].messages[k].text, calls[c].rules)

-----------------------------------------------------------------------------
(* Properties of the poll scheduler *)

\* C8: due rule.  In every scrape cycle a feed that was read and has a worker is
\* posted a job iff the cycle's now minus its last-poll time is at least its
\* interval, a feed never polled being due; a feed whose elapsed time is below
\* its interval is posted nothing and its timestamp is not written; once the
\* cycle is over, every feed it posted to carries the cycle's now.
DueRule ==
    lastCycle.phase # "none" =>
        \A f \in Feeds :
            LET ch == lastCycle.snapshot[f]
                elapsed == lastCycle.now - ch.lastScrapedAt
            IN  /\ (ch.present /\ f \in lastCycle.table) =>
                      /\ (f \in lastCycle.posted) <=> (elapsed >= ch.scrapTimeout)
                      /\ ch.lastScrapedAt = 0 => f \in lastCycle.posted
                /\ (ch.present /\ elapsed < ch.scrapTimeout) =>
                      (f \notin lastCycle.posted /\ f \notin lastCycle.written)
                /\ (f \in lastCycle.posted /\ lastCycle.phase = "done") =>
                      channels[f].lastScrapedAt = lastCycle.now

\* one cycle met a feed of interval 4 polled 5 units before (due: posted, and
\* its timestamp now the cycle's now) and a feed with a worker polled less than
\* its interval before (not due: no job, timestamp as read)
DueAndNotDueInOneCycle ==
    /\ lastCycle.phase = "done"
    /\ \E f, g \in Feeds :
          /\ lastCycle.snapshot[f].scrapTimeout = 4
          /\ lastCycle.now - lastCycle.snapshot[f].lastScrapedAt = 5
          /\ f \in lastCycle.posted
          /\ channels[f].lastScrapedAt = lastCycle.now
          /\ lastCycle.snapshot[g].present /\ g \in lastCycle.table
          /\ lastCycle.now - lastCycle.snapshot[g].lastScrapedAt < lastCycle.snapshot[g].scrapTimeout
          /\ g \notin lastCycle.posted
          /\ channels[g].lastScrapedAt = lastCycle.snapshot[g].lastScrapedAt

LastPollMonotonic ==
    [][\A f \in Feeds : channels'[f].lastScrapedAt >= channels[f].lastScrapedAt]_vars

\* a feed whose timestamp a cycle advanced has been upserted by /addchannel
\* since that cycle read it: the interval is the upsert's, the timestamp the cycle's
UpsertKeptTimestamp ==
    \E f \in Feeds :
        /\ lastCycle.phase = "done"
        /\ f \in lastCycle.written
        /\ lastCycle.snapshot[f].scrapTimeout # AddChannelTimeout
        /\ channels[f].scrapTimeout = AddChannelTimeout
        /\ channels[f].lastScrapedAt = lastCycle.now

-----------------------------------------------------------------------------
(* Properties of the workers, the loop and the handling of failures *)

\* C11 as stated: at no moment has a feed more than one fetch job outstanding,
\* and no cycle posts a job to a feed whose previous job is not yet answered.
OneFetchInFlight ==
    /\ \A f \in Feeds : inflight[f] <= 1
    /\ \A f \in lastCycle.posted : lastCycle.outstanding[f] = 0

\* C14 as stated: once start() has set the running flag, it neither rejects nor
\* returns, whatever database read or write fails.
LoopNeverEnds ==
    isRunning => spc \notin {"rejected", "returned"}

FeedIsolation ==
    [][ /\ spc = "refreshRead" => ENABLED RefreshRead
        /\ spc = "refreshSpawn" => ENABLED RefreshSpawn
        /\ spc = "cycleRead" => ENABLED CycleRead
        /\ spc = "dispatch" => ENABLED CycleDispatch
        /\ spc = "cycleWrite" => ENABLED CycleWrite
        /\ \A a \in Feeds :
              (inflight'[a] < inflight[a] \/ (a \in workers /\ a \notin workers')) =>
                  /\ spc' = spc /\ cyc' = cyc /\ channels' = channels
                  /\ \A b \in Feeds \ {a} :
                        inflight'[b] = inflight[b] /\ (b \in workers' <=> b \in workers)
        /\ (spc = "dispatch" /\ spc' # "dispatch") =>
              \A b \in Feeds :
                  LET own == /\ cyc.snapshot[b] # NoChannel
                             /\ Due(cyc.snapshot[b], cyc.now)
                             /\ b \in workers
                  IN  /\ own => inflight'[b] = inflight[b] + 1
                      /\ ~own => inflight'[b] = inflight[b]
                      /\ b \in cyc'.toScrape <=> own
        /\ (spc = "cycleWrite" /\ spc' # "cycleWrite") =>
              \A b \in cyc.toScrape :
                  channels[b] # NoChannel => channels'[b].lastScrapedAt = cyc.now
      ]_vars

\* a cycle posted a job to one feed and wrote its timestamp while a job of the
\* other feed, posted by an earlier cycle, was still unanswered
PostedBesideHangingFetch ==
    \E a \in Feeds : \E b \in Feeds \ {a} :
        /\ lastCycle.phase = "done"
        /\ lastCycle.outstanding[a] > 0
        /\ inflight[a] > 0
        /\ a \notin lastCycle.posted
        /\ b \in lastCycle.written

\* C15 as stated: the cycle that start() runs before the first delay posts a
\* job for each feed of the registry it read.
ColdStartDispatchesAll ==
    (lastCycle.first /\ lastCycle.phase # "none") =>
        lastCycle.posted = {f \in Feeds : lastCycle.snapshot[f] # NoChannel}

\* C16 as stated: while the running flag is cleared no step posts a job and
\* no step writes a last-poll timestamp, wherever in the tick the loop stands.
StoppedMeansQuiet ==
    [][ ~isRunning =>
            /\ \A f \in Feeds : inflight'[f] <= inflight[f]
            /\ \A f \in Feeds : channels[f] # NoChannel =>
                   channels'[f].lastScrapedAt = channels[f].lastScrapedAt
      ]_vars

\* C17: fetch failure containment.  A step that adds a line to the log is the
\* handling of one failure result: the line names the feed, exactly one of that
\* feed's outstanding jobs is answered, nothing is ingested (store, bus and
\* ingestion calls are untouched), the worker table, the registry and the
\* loop are untouched, so the worker keeps its entry; and a feed with a logged
\* failure is posted a job again by the first cycle that finds it due.
FetchFailureContained ==
    [][ /\ handlerLog' # handlerLog =>
              \E f \in Feeds :
                  /\ handlerLog' = handlerLog \cup {WorkerErrorLine(f)}
                  /\ inflight[f] > 0
                  /\ inflight' = [inflight EXCEPT ![f] = @ - 1]
                  /\ f \in workers /\ workers' = workers
                  /\ UNCHANGED <<channels, messages, bus, calls, started, spc, cyc, lastCycle>>
        /\ (spc = "dispatch" /\ spc' # "dispatch") =>
              \A f \in Feeds :
                  ( /\ WorkerErrorLine(f) \in handlerLog
                    /\ f \in workers
                    /\ cyc.snapshot[f] # NoChannel
                    /\ Due(cyc.snapshot[f], cyc.now) ) => inflight'[f] = inflight[f] + 1
      ]_vars

\* a feed's fetch failed and was logged, its worker kept its entry, and a later
\* cycle posted the feed its next job
FailedFeedPostedAgain ==
    \E f \in Feeds :
        /\ WorkerErrorLine(f) \in handlerLog
        /\ lastCycle.phase = "done"
        /\ f \in lastCycle.posted
        /\ lastCycle.outstanding[f] = 0
        /\ inflight[f] = 1
        /\ f \in workers

\* C18 as stated: when the bulk insert of a batch has failed (the call stands
\* before its publish step with nothing inserted), an error line for that feed
\* is in the log.
PersistFailureLogged ==
    \A c \in CallIds :
        (calls[c].pc = "emit" /\ calls[c].inserted = 0) =>
            \E line \in handlerLog : line.channelId = calls[c].channelId

\* C19 as stated: when a call that overlapped no other call has finished with
\* a batch of two items of which exactly one is malformed (its id is NaN), the
\* other item, if it was not stored before, is stored.
MalformedItemSparesBatch ==
    \A c \in CallIds :
        LET me == calls[c]
            alone == \A d \in CallIds \ {c} :
                         calls[d].pc = "idle" \/ d \in me.prior \/ c \in calls[d].prior
            bad == {i \in 1..Len(me.messages) : me.messages[i].telegramId = NaN}
        IN  (Finished(c) /\ alone /\ Len(me.messages) = 2 /\ Cardinality(bad) = 1) =>
                \A i \in (1..Len(me.messages)) \ bad :
                    me.messages[i].telegramId \notin me.storedAtStart =>
                        me.messages[i].telegramId \in StoredIds(messages, me.channelId)

\* C20 as stated: no ingestion of a fetch result ends with its rejection
\* leaving the worker-result handler.
NoRejectionEscapes ==
    \A c \in CallIds : calls[c].pc # "threw"

-----------------------------------------------------------------------------
(* Properties of the alert bus and of delivery *)

SameAttempt(a, b) == a.payload = b.payload /\ a.item = b.item /\ a.to = b.to

\* C21: the bus with no handler.  A step that publishes a payload while no
\* handler is registered starts no send and ends the publishing call
\* normally; and send attempts come into being only in the step that
\* publishes their payload with a handler registered, so neither a later
\* registration nor any other step delivers a payload published earlier.
NoHandlerDropsPayload ==
    [][ /\ (Len(bus') > Len(bus) /\ handlers = 0) =>
              /\ sends' = sends
              /\ \E c \in CallIds : calls[c].pc = "emit" /\ calls'[c].pc = "done"
        /\ \A a \in sends' :
              (\A b \in sends : ~SameAttempt(a, b)) =>
                  /\ handlers > 0
                  /\ Len(bus') = Len(bus) + 1
                  /\ a.payload = Len(bus')
      ]_vars

\* the first payload was published before the sender registered and has no
\* send attempt, the second was published after and has its attempts
DroppedThenDelivered ==
    /\ handlers = 1
    /\ Len(bus) = 2
    /\ \A a \in sends : a.payload # 1
    /\ \E a \in sends : a.payload = 2

\* C22: publication never blocks on delivery.  In the step that publishes a
\* payload the publishing call completes while every send of that payload is
\* still pending; a step in which a send settles touches no variable of
\* ingestion, of the stores or of the scheduler; and a call that stands at
\* its publish step can take it whatever the earlier sends are doing.
PublishDoesNotWait ==
    [][ /\ Len(bus') > Len(bus) =>
              /\ \E c \in CallIds : calls[c].pc = "emit" /\ calls'[c].pc = "done"
                                    /\ calls'[c].emitted = Len(bus')
              /\ \A a \in sends' : a.payload = Len(bus') => a.outcome = "pending"
        /\ (sends' # sends /\ bus' = bus) =>
              UNCHANGED <<storeVars, ingestVars, schedVars, handlerLog>>
        /\ \A c \in CallIds : calls[c].pc = "emit" => ENABLED Emit(c)
      ]_vars

\* a call published payload 1 and returned, a later call ran to its end, and
\* no send of payload 1 has settled yet
IngestedWhileSendsPending ==
    \E c \in CallIds : \E d \in CallIds \ {c} :
        /\ calls[c].pc = "done" /\ calls[c].emitted = 1
        /\ calls[d].pc = "done" /\ c \in calls[d].prior
        /\ \E a \in sends : a.payload = 1
        /\ \A a \in sends : a.payload = 1 => a.outcome = "pending"

\* C23: fan-out.  The step that publishes a payload to the registered sender
\* starts exactly one pending send for every (item, recipient) pair of the
\* payload, |items| x |recipients| in all, and no other.  Afterwards a step
\* changes the sends only by settling one pending attempt: every other
\* attempt keeps its outcome, a settled attempt is never started again, no
\* attempt is added, and nothing reaches the publisher or the log.
FanOut ==
    [][ /\ (Len(bus') > Len(bus) /\ handlers > 0) =>
              LET p == bus'[Len(bus')]
                  new == sends' \ sends
              IN  /\ sends \subseteq sends'
                  /\ Cardinality(new) = Len(p.items) * Cardinality(p.subscriberIds)
                  /\ \A i \in 1..Len(p.items), u \in p.subscriberIds :
                        Cardinality({a \in new : a.payload = Len(bus') /\ a.item = i /\ a.to = u
                                                  /\ a.outcome = "pending"}) = 1
        /\ (sends' # sends /\ bus' = bus) =>
              /\ \E a \in sends :
                    /\ a.outcome = "pending"
                    /\ sends \ sends' = {a}
                    /\ \E b \in sends' \ sends :
                          /\ sends' \ sends = {b}
                          /\ SameAttempt(a, b) /\ b.method = a.method
                          /\ b.outcome \in {"ok", "failed"}
              /\ UNCHANGED <<storeVars, ingestVars, handlerLog>>
        /\ \A a \in sends : a.outcome # "pending" => a \in sends'
      ]_vars

\* a payload of two items went to two recipients: four attempts, of which one
\* failed, two succeeded, and one is still pending
OneFailedOthersWentOn ==
    \E k \in 1..Len(bus) :
        LET mine == {a \in sends : a.payload = k}
        IN  /\ Len(bus[k].items) = 2
            /\ Cardinality(bus[k].subscriberIds) = 2
            /\ Cardinality(mine) = 4
            /\ Cardinality({a \in mine : a.outcome = "failed"}) = 1
            /\ Cardinality({a \in mine : a.outcome = "ok"}) = 2
            /\ \E a \in mine : a.method = "sendPhoto"

\* C34: delivery routing.  Every (item, recipient) pair of a published
\* payload has exactly one send: sendPhoto with the locator and the rendered
\* body as caption for a locator of kind photo, sendVideo likewise for kind
\* video, and sendMessage with the rendered body as text for every other item
\* (no locator, a locator without kind, a kind without locator).
DeliveryRouting ==
    \A k \in 1..Len(bus) : \A i \in 1..Len(bus[k].items) : \A u \in bus[k].subscriberIds :
        LET it == bus[k].items[i]
            mine == {a \in sends : a.payload = k /\ a.item = i /\ a.to = u}
            withMedia == [media |-> it.mediaUrl, caption |-> it.outMessage, text |-> <<>>]
        IN  /\ Cardinality(mine) = 1
            /\ \A a \in mine :
                  IF it.mediaUrl # "none" /\ it.mediaType = "photo"
                     THEN a.method = "sendPhoto" /\ a.args = withMedia
                  ELSE IF it.mediaUrl # "none" /\ it.mediaType = "video"
                     THEN a.method = "sendVideo" /\ a.args = withMedia
                  ELSE /\ a.method = "sendMessage"
                       /\ a.args = [media |-> "none", caption |-> <<>>, text |-> it.outMessage]

\* both recipients have been sent a photo, a video, and as plain text an item
\* with a locator and no kind and an item with a kind and no locator
EveryRouteTaken ==
    \A u \in EligibleSubscribers(2) :
        /\ \E a \in sends : a.to = u /\ a.method = "sendPhoto"
        /\ \E a \in sends : a.to = u /\ a.method = "sendVideo"
        /\ \E a \in sends :
              /\ a.to = u /\ a.method = "sendMessage"
              /\ bus[a.payload].items[a.item].mediaUrl # "none"
        /\ \E a \in sends :
              /\ a.to = u /\ a.method = "sendMessage"
              /\ bus[a.payload].items[a.item].mediaType = "video"

-----------------------------------------------------------------------------
(* Properties of the parser *)

\* C24 as stated: a block yields an item exactly when it has an id that can
\* be extracted, a timestamp, and text or a photo or video region; and every
\* item yielded has a numeric id.
ParserSkipRules ==
    pOut.state \in {"skipped", "item"} =>
        /\ pOut.state = "item" <=>
              /\ pIn.post # "none" /\ messageId(pIn.post) # NaN
              /\ pIn.time
              /\ (pIn.text # <<>> \/ pIn.photo \/ pIn.video)
        /\ pOut.state = "item" => pOut.item.telegramId # NaN

\* C33 as stated: every item has a media kind exactly when it has a media
\* locator; a photo reference wins over a video; and a video region gives kind
\* video with a locator taken from the src of a <video> inside it, from the
\* region's own src, or from its preview background image.
MediaExtraction ==
    pOut.state = "item" =>
        /\ pOut.item.mediaType # "none" <=> pOut.item.mediaUrl # "none"
        /\ pIn.wrap = "image" => pOut.item.mediaType = "photo"
        /\ ( /\ pIn.wrap # "image" /\ pIn.video
             /\ \/ pIn.tag = "src"
                \/ pIn.tag = "none" /\ (pIn.regionSrc \/ pIn.preview) ) =>
                    /\ pOut.item.mediaType = "video"
                    /\ pOut.item.mediaUrl # "none"

-----------------------------------------------------------------------------
(* Further properties of the ingestion pipeline *)

\* C25: rules are read fresh for every batch.  A call begins with no rule
\* set; the rule set it holds after its prefetch is the rule store as it is at
\* that read; it keeps that set until it returns; and the passed-filter flag
\* of every row it prepares is the classification of the item's text under
\* that set, whatever the rule store has become since.
RulesReadFresh ==
    [][ \A c \in CallIds :
          LET old == calls[c]
              new == calls'[c]
          IN  /\ (old.pc = "idle" /\ new.pc = "prefetch") => new.rules = {}
              /\ (old.pc = "prefetch" /\ new.pc = "dedupe") => new.rules = rules
              /\ (old.pc \in {"dedupe", "persist"} /\ new.pc \in {"persist", "emit"}) =>
                    new.rules = old.rules
              /\ (old.pc = "dedupe" /\ new.pc = "persist") =>
                    LET kept == NotSkipped(old.messages, new.existing)
                    IN  /\ Len(new.toPersist) = Len(kept)
                        /\ \A i \in 1..Len(kept) :
                              new.toPersist[i].sent = Classify(kept[i].text, old.rules)
      ]_vars

\* an earlier call stored an item as not passed under the empty rule set; a
\* rule was added; a later call read it and prepared a row marked as passed
LaterBatchUsesNewRule ==
    \E c \in CallIds :
        /\ calls[c].pc = "persist"
        /\ \E d \in calls[c].prior : calls[d].inserted > 0
        /\ \E j \in 1..Len(messages) : ~messages[j].sent
        /\ calls[c].rules # {}
        /\ \E i \in 1..Len(calls[c].toPersist) : calls[c].toPersist[i].sent

PersistBeforePublish ==
    \A k \in 1..Len(bus) :
        \A i \in 1..Len(bus[k].items) :
            bus[k].items[i].telegramId \in StoredIds(messages, bus[k].channelId)

\* C28 as stated: when two calls for the same feed that overlapped (neither
\* had finished when the other began) are both over, and neither batch holds
\* an id twice, no id is in both their payloads and every item of either batch
\* is in the store.
AtMostOnceUnderOverlap ==
    \A c \in CallIds : \A d \in CallIds \ {c} :
        LET idsOf(q) == {q[i].telegramId : i \in 1..Len(q)}
            distinctIds(q) == Cardinality(idsOf(q)) = Len(q)
        IN  ( /\ calls[c].pc = "done" /\ calls[d].pc = "done"
              /\ c \notin calls[d].prior /\ d \notin calls[c].prior
              /\ calls[c].channelId = calls[d].channelId
              /\ distinctIds(calls[c].messages) /\ distinctIds(calls[d].messages) ) =>
                /\ (calls[c].emitted > 0 /\ calls[d].emitted > 0) =>
                      idsOf(bus[calls[c].emitted].items) \cap idsOf(bus[calls[d].emitted].items) = {}
                /\ idsOf(calls[c].messages) \cup idsOf(calls[d].messages)
                      \subseteq StoredIds(messages, calls[c].channelId)

\* C29 as stated: no feed ever has a live worker outside the worker table, so
\* a feed has at most one live worker.
NoOrphanedWorker ==
    \A f \in Feeds : orphans[f] = 0

\* C30 as stated: when a call that overlapped no other call is over and its
\* batch held the same id twice, an id not stored when the call began, the
\* store holds exactly one record of that id for the feed and the call's
\* payload holds at most one delivery item of that id.
DuplicateIdStoredOnce ==
    \A c \in CallIds :
        LET me == calls[c]
            alone == \A d \in CallIds \ {c} :
                         calls[d].pc = "idle" \/ d \in me.prior \/ c \in calls[d].prior
        IN  ( /\ me.pc = "done" /\ alone
              /\ Len(me.messages) = 2
              /\ me.messages[1].telegramId = me.messages[2].telegramId
              /\ me.messages[1].telegramId \notin me.storedAtStart ) =>
                LET id == me.messages[1].telegramId
                IN  /\ Cardinality({j \in 1..Len(messages) :
                                       /\ messages[j].channelId = me.channelId
                                       /\ messages[j].telegramId = id}) = 1
                    /\ me.emitted > 0 =>
                          Cardinality({i \in 1..Len(bus[me.emitted].items) :
                                          bus[me.emitted].items[i].telegramId = id}) <= 1

-----------------------------------------------------------------------------
(* Further properties of the poll scheduler *)

PostedBySecondTick ==
    [][ (spc = "dispatch" /\ spc' # "dispatch" /\ lastCycle.phase = "done") =>
            \A f \in Feeds :
                ( /\ lastCycle.snapshot[f] # NoChannel
                  /\ Due(lastCycle.snapshot[f], lastCycle.now)
                  /\ f \notin lastCycle.posted
                  /\ cyc.snapshot[f] = lastCycle.snapshot[f] ) =>
                        /\ f \in cyc'.toScrape
                        /\ inflight'[f] = inflight[f] + 1
      ]_vars

-----------------------------------------------------------------------------
(* Further properties of dedupe and of the filter decision *)

IdsOf(seq) == [i \in 1..Len(seq) |-> seq[i].telegramId]

\* C35: the dedupe check is scoped per feed.  The prepare loop of a call on
\* feed f keeps exactly the items whose id is not stored under f, whatever is
\* stored under another feed, and publishes those of them that pass; its
\* insert is accepted whenever its rows collide with no row of f and with
\* each other, and changes no row of another feed; its payload carries its
\* own feed and items; and a step of one call changes no other call.
FeedScopedDedupe ==
    [][ \A c \in CallIds :
          LET old == calls[c]
              new == calls'[c]
              f == old.channelId
              fresh == SelectSeq(old.messages, LAMBDA m : m.telegramId \notin StoredIds(messages, f))
              passing == SelectSeq(fresh, LAMBDA m : Classify(m.text, old.rules))
              ids == IdsOf(old.toPersist)
          IN  /\ (old.pc = "dedupe" /\ new.pc = "persist") =>
                    /\ IdsOf(new.toPersist) = IdsOf(fresh)
                    /\ IdsOf(new.prepared) = IdsOf(passing)
              /\ (old.pc = "dedupe" /\ new.pc = "done") => fresh = <<>>
              /\ (old.pc = "persist" /\ new.pc = "emit") =>
                    /\ \A g \in Feeds \ {f} : RowsOf(messages', g) = RowsOf(messages, g)
                    /\ ( /\ \A i, j \in 1..Len(ids) : ids[i] = ids[j] => i = j
                         /\ \A i \in 1..Len(ids) : ids[i] \notin StoredIds(messages, f) ) =>
                            RowsOf(messages', f) = RowsOf(messages, f) \o old.toPersist
              /\ (old.pc = "emit" /\ new.pc = "done" /\ old.prepared # <<>> /\ old.subscribers # {}) =>
                    /\ Len(bus') = Len(bus) + 1
                    /\ bus'[Len(bus')].channelId = f
                    /\ bus'[Len(bus')].items = old.prepared
              /\ new # old => \A d \in CallIds \ {c} : calls'[d] = calls[d]
      ]_vars

\* two calls that overlapped in time, one per feed, each with the item of id
\* 1 in its batch, have both stored and published it
SameIdOnTwoFeeds ==
    \E c \in CallIds : \E d \in CallIds \ {c} :
        /\ calls[c].pc = "done" /\ calls[d].pc = "done"
        /\ calls[c].channelId # calls[d].channelId
        /\ c \notin calls[d].prior /\ d \notin calls[c].prior
        /\ \A e \in {c, d} :
              /\ calls[e].inserted > 0
              /\ calls[e].emitted > 0
              /\ \E i \in 1..Len(bus[calls[e].emitted].items) :
                    bus[calls[e].emitted].items[i].telegramId = 1
              /\ 1 \in StoredIds(messages, calls[e].channelId)

\* C36 as stated: rule edits are not retroactive.  A payload never carries an
\* item whose key (feed id, source item id) is already stored, unless the
\* publishing call itself stored it just before, with passed-filter true, and
\* no earlier payload carried that key; and an item is classified only while
\* its key is neither stored nor being classified by another call.
NotRetroactive ==
    [][ \A c \in CallIds :
          LET old == calls[c]
              new == calls'[c]
              f == old.channelId
          IN  /\ (old.pc = "emit" /\ new.pc = "done" /\ Len(bus') > Len(bus)) =>
                    \A i \in 1..Len(old.prepared) :
                        LET id == old.prepared[i].telegramId
                        IN  /\ \A j \in 1..Len(messages) :
                                  (messages[j].channelId = f /\ messages[j].telegramId = id) =>
                                      messages[j].sent /\ old.inserted > 0
                            /\ \A k \in 1..Len(bus) : \A n \in 1..Len(bus[k].items) :
                                  bus[k].channelId = f => bus[k].items[n].telegramId # id
              /\ (old.pc = "dedupe" /\ new.pc = "persist") =>
                    \A i \in 1..Len(new.toPersist) :
                        LET id == new.toPersist[i].telegramId
                        IN  /\ id \notin StoredIds(messages, f)
                            /\ \A d \in CallIds \ {c} :
                                  (calls[d].channelId = f /\ calls[d].pc \in {"persist", "emit"}) =>
                                      \A n \in 1..Len(calls[d].toPersist) :
                                          calls[d].toPersist[n].telegramId # id
      ]_vars

-----------------------------------------------------------------------------
(* Properties of the administration handlers *)

\* C37 as stated: rule compaction is not observable by ingestion.  A call
\* that reads the rule table while a compaction is in progress classifies
\* every item of its batch as the full rule set, the one the compaction read
\* and restores, classifies it.
CompactionInvisible ==
    [][ \A c \in CallIds :
          LET old == calls[c]
              new == calls'[c]
          IN  (old.pc = "prefetch" /\ new.pc = "dedupe" /\ compaction.pc # "idle") =>
                  \A i \in 1..Len(old.messages) :
                      Classify(old.messages[i].text, new.rules)
                          = Classify(old.messages[i].text, compaction.rules)
      ]_vars

\* C38: start() on a running scraper returns without effect.  Such a call
\* leaves the loop where it is, with its locals, the worker table, the jobs
\* outstanding, the flag and the feed registry as they were, so the one loop
\* goes on alone: no dispatch step posts more than one job to a feed.
SecondStartNoEffect ==
    [][ /\ (isRunning /\ starts' = starts + 1) =>
              UNCHANGED <<spc, cyc, workers, inflight, isRunning, lastCycle, channels>>
        /\ (spc = "dispatch" /\ spc' # "dispatch") =>
              \A f \in Feeds : inflight'[f] <= inflight[f] + 1
      ]_vars

\* start() has been called again on the running scraper, whose loop has
\* completed a cycle later than the first and sleeps before the next
StartedTwiceStillCycling ==
    /\ starts >= 2
    /\ isRunning
    /\ spc = "delay"
    /\ lastCycle.phase = "done"
    /\ lastCycle.now > StartTime
    /\ workers # {}

\* C39 as stated: no rule with an empty phrase is ever stored, whichever way
\* the rule was added.
NoEmptyPhrase == \A r \in rules : r.phrase # <<>>

\* C40 as stated: a banned user never receives alerts.  The recipients a call
\* reads hold no user who is banned and no user in do-not-disturb mode at
\* that moment, and the payload the call publishes goes to the recipients it
\* read.
NoBannedRecipient ==
    [][ \A c \in CallIds :
          LET old == calls[c]
              new == calls'[c]
          IN  /\ (old.pc = "prefetch" /\ new.pc = "dedupe") =>
                    /\ new.subscribers \cap banned = {}
                    /\ new.subscribers \cap silent = {}
              /\ (old.pc = "emit" /\ new.pc = "done" /\ Len(bus') > Len(bus)) =>
                    bus'[Len(bus')].subscriberIds = old.subscribers
      ]_vars

====================================================================
